---- MODULE Spec2Model ----
\* Model of arkservers.js: the memoized single-flight URI cache
\* (cachedUri / makeCacher / cacher), the uncached accessors
\* (getVersion, getStatus, getNews), the server fan-out
\* (getServerPromises / getServerList) and the staged lookup of one
\* server by name (getServerInfo).
EXTENDS Integers, Sequences, FiniteSets, TLC

\* ---------------------------------------------------------------------
\* Bounds of the model
\* ---------------------------------------------------------------------

\* Number of fetchUri calls per URI that the model follows.
MaxFetches == 3

\* Largest number of query targets of one getServerList call that the
\* model follows.
MaxTargets == 4

\* ---------------------------------------------------------------------
\* Program constants (arkservers.js:32-59)
\* ---------------------------------------------------------------------

BASE_URI == "http://arkdedicated.com"

VERSION_URI == "/version"

STATUS_URI == "/officialserverstatus.ini"

NEWS_URI == "/news.ini"

SERVER_LIST_URI == "/officialservers.ini"

\* The API URIs fetchUri is ever called with.
ApiUris == {VERSION_URI, STATUS_URI, NEWS_URI, SERVER_LIST_URI}

\* JavaScript null, where a string is otherwise held.
Null == "<null>"

\* JavaScript null, where an array or an object is otherwise held.
NullRef == [null |-> TRUE]

\* An array value.
Arr(list) == [null |-> FALSE, list |-> list]

\* A truthiness under which the empty array is falsy.
TruthyNonEmpty(v) == ~v.null /\ v.list # <<>>

\* JavaScript truthiness of an array-or-null value: every array, the empty
\* one included, is truthy.
Truthy(v) == ~v.null

\* The default port list (arkservers.js:52).
PORT_LIST == <<27015, 27017, 27019, 27021>>

\* Bodies an HTTP fetch can deliver (rawData): the empty body and a text.
Texts == {"", "281.110"}

\* ---------------------------------------------------------------------
\* State
\* ---------------------------------------------------------------------

VARIABLES
  loaded,        \* the module's top-level code has run
  memo,          \* _.memoize cache of cachedUri: memo key -> closure state
  cacheFetches,  \* memo key -> outstanding fetchUri promises started by cacher
  fetchCalls,    \* api URI -> number of fetchUri calls made so far, by the
                 \* cacher and by everyone else
  delivered,     \* api URI -> texts the cacher's fetches resolved with, in order
  call,          \* the getServerList call in progress, or the last one made
  resolver,      \* the getServerInfo call in progress, or the last one made
  lastOp         \* the operation performed by the last step

vars == <<loaded, memo, cacheFetches, fetchCalls, delivered, call, resolver, lastOp>>

\* ---------------------------------------------------------------------
\* cachedUri: memoization (arkservers.js:96-123)
\* ---------------------------------------------------------------------

\* A resolver that keys on the first argument only, which is what
\* _.memoize does when it is given no resolver.
MemoKeyFirstArgOnly(baseUri, apiUri) == <<baseUri>>

\* The resolver (...args) => JSON.stringify(args): the key is the full
\* argument tuple.
MemoKey(baseUri, apiUri) == <<baseUri, apiUri>>

\* All keys the resolver can produce for the URIs in use.
MemoKeys == {MemoKey(BASE_URI, u) : u \in ApiUris} \cup {MemoKeyFirstArgOnly(BASE_URI, u) : u \in ApiUris}

\* makeCacher: the fresh closure state, with the URIs it captures.
MakeCacher(baseUri, apiUri) ==
  [cachedValue |-> Null, inProgress |-> FALSE, baseUri |-> baseUri, apiUri |-> apiUri]

\* cachedUri(baseUri, apiUri): the memo table after the lookup (a miss
\* creates the closure, a hit reuses it).
CachedUri(m, baseUri, apiUri) ==
  IF MemoKey(baseUri, apiUri) \in DOMAIN m
    THEN m
    ELSE (MemoKey(baseUri, apiUri) :> MakeCacher(baseUri, apiUri)) @@ m

\* ---------------------------------------------------------------------
\* cacher (arkservers.js:108-122)
\* ---------------------------------------------------------------------

\* A cacher that does not look at inProgress.
CacherStartsFetchIgnoringProgress(state) == state.cachedValue = Null

\* A cacher that takes every falsy value for "not cached".
CacherStartsFetchOnFalsy(state) == state.cachedValue \in {Null, ""} /\ ~state.inProgress

\* A cacher that fetches whenever no fetch is under way, cached or not.
CacherStartsFetchWhenIdle(state) == ~state.inProgress

\* The condition under which cacher() starts a fetch.
CacherStartsFetch(state) == state.cachedValue = Null /\ ~state.inProgress

\* A return statement that always reports "not ready".
CacherReturnNotReady(state) == Null

\* The value cacher() returns.
CacherReturn(state) == state.cachedValue

\* A then-handler that forgets to clear the flag.
OnFetchResolvedKeepFlag(state, result) == [state EXCEPT !.cachedValue = result]

\* The then-handler of the fetch (lines 112-114).
OnFetchResolved(state, result) ==
  [state EXCEPT !.cachedValue = result, !.inProgress = FALSE]

\* A catch-handler that leaves the flag set.
OnFetchRejectedKeepFlag(state) == state

\* The catch-handler of the fetch (lines 115-118).
OnFetchRejected(state) == [state EXCEPT !.inProgress = FALSE]

\* The state of one cacher() call on the closure under `key`:
\* the new memo table, or the same table when no fetch is started.
CacherCall(m, key) ==
  IF CacherStartsFetch(m[key])
    THEN [m EXCEPT ![key].inProgress = TRUE]
    ELSE m

\* One call of cachedUri(BASE_URI, apiUri)() applied to the cache state
\* c = [memo, cacheFetches, fetchCalls]; yields the new state and the
\* returned value.
GetCachedStep(c, apiUri) ==
  LET m1 == CachedUri(c.memo, BASE_URI, apiUri)
      key == MemoKey(BASE_URI, apiUri)
      start == CacherStartsFetch(m1[key])
      m2 == CacherCall(m1, key)
      cf == c.cacheFetches
      target == m1[key].apiUri
  IN [memo |-> m2,
      cacheFetches |-> IF start THEN [cf EXCEPT ![key] = @ + 1] ELSE cf,
      fetchCalls |-> IF start THEN [c.fetchCalls EXCEPT ![target].cacher = @ + 1]
                               ELSE c.fetchCalls,
      ret |-> CacherReturn(m2[key]),
      started |-> start]

\* ---------------------------------------------------------------------
\* Initial state: before the module's top-level code runs.
\* ---------------------------------------------------------------------

Init ==
  /\ loaded = FALSE
  /\ memo = <<>>
  /\ cacheFetches = [k \in MemoKeys |-> 0]
  /\ fetchCalls = [u \in ApiUris |-> [cacher |-> 0, direct |-> 0]]
  /\ delivered = [u \in ApiUris |-> <<>>]
  /\ call = [pc |-> "idle", serverIPs |-> NullRef, ports |-> NullRef,
             useServerIPs |-> NullRef, targets |-> <<>>,
             promises |-> <<>>, order |-> <<>>, value |-> <<>>, reason |-> Null]
  /\ resolver = [pc |-> "idle", serverName |-> Null, host |-> Null, port |-> NullRef,
                 fallback |-> TRUE, home |-> NullRef, rounds |-> <<>>, result |-> NullRef]
  /\ lastOp = [op |-> "none"]

\* A priming list that also primes the server list.
PrimedUrisWithServerList == <<VERSION_URI, STATUS_URI, NEWS_URI, SERVER_LIST_URI>>

\* The endpoints primed at load time, in call order (lines 189-192).
PrimedUris == <<VERSION_URI, STATUS_URI, NEWS_URI>>

RECURSIVE PrimeAll(_, _)
\* The priming calls applied one after the other.
PrimeAll(c, uris) ==
  IF uris = <<>> THEN c
  ELSE LET r == GetCachedStep(c, Head(uris))
       IN PrimeAll([memo |-> r.memo, cacheFetches |-> r.cacheFetches,
                    fetchCalls |-> r.fetchCalls], Tail(uris))

\* Module load: the three priming calls (lines 189-192).
ModuleInit ==
  /\ ~loaded
  /\ LET r == PrimeAll([memo |-> memo, cacheFetches |-> cacheFetches,
                        fetchCalls |-> fetchCalls], PrimedUris)
     IN /\ memo' = r.memo
        /\ cacheFetches' = r.cacheFetches
        /\ fetchCalls' = r.fetchCalls
  /\ loaded' = TRUE
  /\ lastOp' = [op |-> "moduleInit"]
  /\ UNCHANGED <<delivered, call, resolver>>

\* ---------------------------------------------------------------------
\* The cached accessors (lines 141-143, 165-167, 184-186)
\* ---------------------------------------------------------------------

\* The number of fetchUri calls made for apiUri.
FetchCallCount(apiUri) == fetchCalls[apiUri].cacher + fetchCalls[apiUri].direct

\* cachedUri(BASE_URI, apiUri)() called by a consumer of the module
\* through the accessor `name`.
GetCached(apiUri, name) ==
  /\ loaded
  /\ LET r == GetCachedStep([memo |-> memo, cacheFetches |-> cacheFetches,
                             fetchCalls |-> fetchCalls], apiUri)
     IN /\ r.started => FetchCallCount(apiUri) < MaxFetches
        /\ memo' = r.memo
        /\ cacheFetches' = r.cacheFetches
        /\ fetchCalls' = r.fetchCalls
        /\ lastOp' = [op |-> name, uri |-> apiUri, ret |-> r.ret]
  /\ UNCHANGED <<loaded, delivered, call, resolver>>

getCachedVersion == GetCached(VERSION_URI, "getCachedVersion")

getCachedStatus == GetCached(STATUS_URI, "getCachedStatus")

getCachedNews == GetCached(NEWS_URI, "getCachedNews")

\* The fetch started by the cacher under `key` resolves with `result`:
\* the then-handler runs (lines 112-114).
FetchResolved(key, result) ==
  /\ key \in DOMAIN memo
  /\ cacheFetches[key] > 0
  /\ cacheFetches' = [cacheFetches EXCEPT ![key] = @ - 1]
  /\ memo' = [memo EXCEPT ![key] = OnFetchResolved(@, result)]
  /\ delivered' = [delivered EXCEPT ![memo[key].apiUri] = Append(@, result)]
  /\ lastOp' = [op |-> "fetchResolved", uri |-> memo[key].apiUri, key |-> key]
  /\ UNCHANGED <<loaded, fetchCalls, call, resolver>>

\* The fetch started by the cacher under `key` rejects: the catch-handler
\* runs (lines 115-118).
FetchRejected(key) ==
  /\ key \in DOMAIN memo
  /\ cacheFetches[key] > 0
  /\ cacheFetches' = [cacheFetches EXCEPT ![key] = @ - 1]
  /\ memo' = [memo EXCEPT ![key] = OnFetchRejected(@)]
  /\ lastOp' = [op |-> "fetchRejected", uri |-> memo[key].apiUri, key |-> key]
  /\ UNCHANGED <<loaded, fetchCalls, delivered, call, resolver>>

\* ---------------------------------------------------------------------
\* The uncached accessors (lines 131-133, 155-157, 174-176)
\* ---------------------------------------------------------------------

\* An accessor that goes through the cache like its getCached twin.
GetFreshThroughCache(apiUri, name) == GetCached(apiUri, name)

\* return fetchUri(BASE_URI, apiUri): a new fetch whose promise is handed
\* to the caller; the cache is not consulted, and the module attaches no
\* handler to the promise, so its settling changes no state here.
GetFresh(apiUri, name) ==
  /\ loaded
  /\ FetchCallCount(apiUri) < MaxFetches
  /\ fetchCalls' = [fetchCalls EXCEPT ![apiUri].direct = @ + 1]
  /\ lastOp' = [op |-> name, uri |-> apiUri]
  /\ UNCHANGED <<loaded, memo, cacheFetches, delivered, call, resolver>>

getVersion == GetFresh(VERSION_URI, "getVersion")

getStatus == GetFresh(STATUS_URI, "getStatus")

getNews == GetFresh(NEWS_URI, "getNews")

\* ---------------------------------------------------------------------
\* Specification of the cache and the accessors
\* ---------------------------------------------------------------------

NextCache ==
  \/ ModuleInit
  \/ getCachedVersion
  \/ getCachedStatus
  \/ getCachedNews
  \/ \E key \in MemoKeys, result \in Texts : FetchResolved(key, result)
  \/ \E key \in MemoKeys : FetchRejected(key)
  \/ getVersion
  \/ getStatus
  \/ getNews

SpecCache == Init /\ [][NextCache]_vars

\* The fetch started by the cacher under `key` settles: http.get ends
\* the response or reports an error (lines 73-82).
CacheFetchSettles(key) ==
  \/ \E result \in Texts : FetchResolved(key, result)
  \/ FetchRejected(key)

\* The steps of the cache alone: the priming calls, the cached accessors
\* and the settling of the cacher's fetches.
NextCacheOnly ==
  \/ ModuleInit
  \/ getCachedVersion
  \/ getCachedStatus
  \/ getCachedNews
  \/ \E key \in MemoKeys, result \in Texts : FetchResolved(key, result)
  \/ \E key \in MemoKeys : FetchRejected(key)

\* The cache in a world where every fetch eventually settles.
SpecCacheLive ==
  Init /\ [][NextCacheOnly]_vars /\ \A key \in MemoKeys : WF_vars(CacheFetchSettles(key))

\* ---------------------------------------------------------------------
\* ArkServerInfo (arkserverinfo.js:76-102) and the Gamedig results
\* ---------------------------------------------------------------------

\* gdVersion.replace(/\(v([^}]+)\)/, (match, p1) => p1) on the version
\* pieces in use.
StripVersion(gdVersion) ==
  CASE gdVersion = "(v281.110)" -> "281.110"
    [] OTHER -> gdVersion

\* new ArkServerInfo(gdResult). gdResult.name is held as the sequence of
\* its ' - '-separated pieces (<<>> for a missing or empty name);
\* gdResult.raw is "rules" (raw.rules present), "norules" (raw without
\* rules) or "absent". The constructor throws a TypeError when the name
\* has no second piece (gdVersion is undefined) or raw has no rules.
ArkServerInfo(gdResult) ==
  IF gdResult.name # <<>> /\ Len(gdResult.name) < 2 THEN [threw |-> TRUE]
  ELSE IF gdResult.raw = "norules" THEN [threw |-> TRUE]
  ELSE [threw |-> FALSE,
        info |-> [null |-> FALSE,
                  name |-> IF gdResult.name # <<>> THEN gdResult.name[1] ELSE Null,
                  version |-> IF gdResult.name # <<>>
                                THEN StripVersion(gdResult.name[2]) ELSE Null,
                  gamedigQueryResult |-> gdResult]]

\* The server IPs a caller or the server list names.
Hosts == {"10.0.0.1", "10.0.0.2"}

\* What Gamedig can answer for a query of (host, port): a rejection, or a
\* result carrying the query it answers.
GdOutcomes(host, port) ==
  {[ok |-> FALSE]} \cup
  {[ok |-> TRUE, result |-> [name |-> n, raw |-> "rules", host |-> host, port |-> port]] :
     n \in {<<"Srv-A", "(v281.110)">>, <<"Srv-B", "(v281.110)">>, <<"Srv-A">>}} \cup
  {[ok |-> TRUE, result |-> [name |-> <<>>, raw |-> "absent", host |-> host, port |-> port]]}

\* ---------------------------------------------------------------------
\* getServerPromises (arkservers.js:219-232)
\* ---------------------------------------------------------------------

\* serverList.split(/\r?\n/).map(line => line.split(/\s+/)[0]) (line 222).
\* A body is held as the sequence of its lines, each line as the non-empty
\* sequence of the pieces split(/\s+/) yields.
ParseServerList(serverList) == [i \in 1..Len(serverList) |-> serverList[i][1]]

\* Bodies of the server-list endpoint: the empty body, one line with a
\* trailing column, two lines, one line followed by an empty line.
ServerListBodies ==
  { << <<"">> >>,
    << <<"10.0.0.1", "comment">> >>,
    << <<"10.0.0.1">>, <<"10.0.0.2">> >>,
    << <<"10.0.0.2">>, <<"">> >> }

\* A port choice that ignores the caller's list.
PortsInUseDefaultOnly(ports) == PORT_LIST

\* ports || arkservers.PORT_LIST (line 225).
PortsInUse(ports) == IF Truthy(ports) THEN ports.list ELSE PORT_LIST

RECURSIVE ConcatAll(_)
\* The reduce((acc, val) => acc.concat(val)) of a non-empty array of arrays.
ConcatAll(arrays) ==
  IF Len(arrays) = 1 THEN arrays[1] ELSE arrays[1] \o ConcatAll(Tail(arrays))

\* Lines 224-228: the queries for the IPs in use, IP-major; reduce without
\* an initial value throws a TypeError on an empty array.
ServerQueries(useServerIPs, ports) ==
  IF useServerIPs = <<>> THEN [threw |-> TRUE]
  ELSE [threw |-> FALSE,
        queries |-> ConcatAll([i \in 1..Len(useServerIPs) |->
                       [j \in 1..Len(PortsInUse(ports)) |->
                          [host |-> useServerIPs[i], port |-> PortsInUse(ports)[j]]]])]

\* gamedigQuery(query).then(result => new ArkServerInfo(result)) (lines
\* 229-231), once Gamedig has answered g: rejected when Gamedig rejects
\* or the constructor throws.
QueryPromise(g) ==
  IF ~g.ok \/ ArkServerInfo(g.result).threw
    THEN [state |-> "rejected"]
    ELSE [state |-> "fulfilled", value |-> ArkServerInfo(g.result).info]

\* ---------------------------------------------------------------------
\* getServerList (arkservers.js:241-246)
\* ---------------------------------------------------------------------

Pending == [state |-> "pending"]

\* A mapping that leaves the rejection in place.
NullableNoCatch(qpromise) == qpromise

\* qpromise.catch(() => null) (line 243).
Nullable(qpromise) ==
  IF qpromise.state = "rejected"
    THEN [state |-> "fulfilled", value |-> NullRef]
    ELSE qpromise

\* A gathering that lists the values as they arrive.
PromiseAllByCompletion(promises, order) ==
  IF \E i \in DOMAIN promises : promises[i].state = "rejected"
    THEN [state |-> "rejected"]
  ELSE IF \A i \in DOMAIN promises : promises[i].state = "fulfilled"
    THEN [state |-> "fulfilled", value |-> [k \in DOMAIN order |-> promises[order[k]].value]]
  ELSE Pending

\* A gathering that settles with the first promise to settle.
PromiseRace(promises, order) ==
  IF order = <<>> /\ promises # <<>> THEN Pending
  ELSE IF promises = <<>> THEN [state |-> "fulfilled", value |-> <<>>]
  ELSE IF promises[order[1]].state = "rejected" THEN [state |-> "rejected"]
  ELSE [state |-> "fulfilled", value |-> <<promises[order[1]].value>>]

\* Promise.all(promises) (line 244): rejected as soon as one promise is,
\* fulfilled when all are, with the values in the order of `promises`;
\* `order`, the order in which they settled, plays no part.
PromiseAll(promises, order) ==
  IF \E i \in DOMAIN promises : promises[i].state = "rejected"
    THEN [state |-> "rejected"]
  ELSE IF \A i \in DOMAIN promises : promises[i].state = "fulfilled"
    THEN [state |-> "fulfilled", value |-> [i \in DOMAIN promises |-> promises[i].value]]
  ELSE Pending

\* A filter that keeps everything.
FilterResolvedKeepAll(resolved) == resolved

\* resolved.filter(val => val !== null) (line 245).
FilterResolved(resolved) == SelectSeq(resolved, LAMBDA val : ~val.null)

\* getServerList from the point where the queries have been built: the
\* queries are dispatched and the call awaits Promise.all, which may be
\* settled already.
AwaitQueries(c) ==
  LET all == PromiseAll([i \in DOMAIN c.promises |-> Nullable(c.promises[i])], c.order)
  IN CASE all.state = "fulfilled" ->
            [c EXCEPT !.pc = "resolved", !.value = FilterResolved(all.value)]
       [] all.state = "rejected" -> [c EXCEPT !.pc = "rejected", !.reason = "query"]
       [] OTHER -> [c EXCEPT !.pc = "querying"]

\* The call record once useServerIPs is known (lines 224-231, 243-245).
Dispatch(c, useServerIPs) ==
  LET sq == ServerQueries(useServerIPs, c.ports)
  IN IF sq.threw
       THEN [c EXCEPT !.pc = "rejected", !.reason = "TypeError",
                      !.useServerIPs = Arr(useServerIPs)]
       ELSE AwaitQueries([c EXCEPT !.useServerIPs = Arr(useServerIPs),
                                   !.targets = sq.queries,
                                   !.promises = [i \in 1..Len(sq.queries) |-> Pending]])

\* The record of a call just made.
NewCall(serverIPs, ports) ==
  [pc |-> "called", serverIPs |-> serverIPs, ports |-> ports,
   useServerIPs |-> NullRef, targets |-> <<>>,
   promises |-> <<>>, order |-> <<>>, value |-> <<>>, reason |-> Null]

\* The number of targets a call would query for these IPs.
TargetCount(useServerIPs, ports) == Len(useServerIPs) * Len(PortsInUse(ports))

\* The arguments the model passes for serverIPs and ports.
ServerIPArgs == {NullRef, Arr(<<>>), Arr(<<"10.0.0.1">>), Arr(<<"10.0.0.2", "10.0.0.1">>)}

PortArgs == {NullRef, Arr(<<>>), Arr(<<27015>>), Arr(<<27017, 27015>>)}

\* The start of a getServerList(serverIPs, ports) call, given the fetch
\* counts fc: with an IP list the queries are dispatched at once; without
\* one the server list is fetched first (lines 220-221).
StartCall(serverIPs, ports, fc) ==
  IF Truthy(serverIPs)
    THEN [call |-> Dispatch(NewCall(serverIPs, ports), serverIPs.list), fetchCalls |-> fc]
    ELSE [call |-> [NewCall(serverIPs, ports) EXCEPT !.pc = "fetchingList"],
          fetchCalls |-> [fc EXCEPT ![SERVER_LIST_URI].direct = @ + 1]]

\* ---------------------------------------------------------------------
\* getServerInfo (arkservers.js:259-296)
\* ---------------------------------------------------------------------

\* A number value, where null may be held too.
Num(n) == [null |-> FALSE, val |-> n]

\* Truthiness of the host hint (a string or null) and of the port hint
\* (a number or null), as tested by `host ?`, `!!host`, `port ?`, `!!port`.
HostGiven(host) == host \notin {Null, ""}

PortGiven(port) == ~port.null /\ port.val # 0

\* A filter that lets every record through.
MatchNameIgnoringName(list, serverName) == list

\* .filter(info => info.name === serverName) (lines 268-270, 276, 282, 291).
MatchName(list, serverName) == SelectSeq(list, LAMBDA info : info.name = serverName)

\* A first test that is content with either hint.
FirstIfEitherHint(resultList, fallback, host, port) ==
  Len(resultList) = 0 /\ fallback /\ (HostGiven(host) \/ PortGiven(port))

\* A first test that does not look at the result of the hinted stage.
FirstIfAnyResult(resultList, fallback, host, port) ==
  fallback /\ HostGiven(host) /\ PortGiven(port)

\* A first test that does not ask for fallback.
FirstIfWithoutFallback(resultList, fallback, host, port) ==
  Len(resultList) = 0 /\ HostGiven(host) /\ PortGiven(port)

\* The test of line 274.
FirstIf(resultList, fallback, host, port) ==
  Len(resultList) = 0 /\ fallback /\ HostGiven(host) /\ PortGiven(port)

\* An inner test the wrong way round.
InnerIfNonEmpty(resultList) == Len(resultList) > 0

\* The test of line 280.
InnerIf(resultList) == Len(resultList) = 0

\* A last test that does not ask for a hint.
SecondIfWithoutHint(resultList, fallback, host, port) ==
  Len(resultList) = 0 /\ fallback

\* A last test that does not ask for fallback.
SecondIfWithoutFallback(resultList, fallback, host, port) ==
  Len(resultList) = 0 /\ (HostGiven(host) \/ PortGiven(port))

\* A last test that asks for both hints.
SecondIfBothHints(resultList, fallback, host, port) ==
  Len(resultList) = 0 /\ fallback /\ HostGiven(host) /\ PortGiven(port)

\* The test of line 289.
SecondIf(resultList, fallback, host, port) ==
  Len(resultList) = 0 /\ fallback /\ (HostGiven(host) \/ PortGiven(port))

\* The stage that follows `stage`, whose matches are resultList, or
\* "return" (lines 265-295).
NextStage(stage, resultList, fallback, host, port) ==
  CASE stage = "hinted" ->
         IF FirstIf(resultList, fallback, host, port) THEN "hostOnly"
         ELSE IF SecondIf(resultList, fallback, host, port) THEN "fullScan"
         ELSE "return"
    [] stage = "hostOnly" ->
         IF InnerIf(resultList) THEN "portOnly"
         ELSE IF SecondIf(resultList, fallback, host, port) THEN "fullScan"
         ELSE "return"
    [] stage = "portOnly" ->
         IF SecondIf(resultList, fallback, host, port) THEN "fullScan" ELSE "return"
    [] OTHER -> "return"

\* Stage arguments whose host-only stage keeps the port hint.
StageArgsHostOnlyWithPort(stage, host, port) ==
  CASE stage = "hinted" ->
         [serverIPs |-> IF HostGiven(host) THEN Arr(<<host>>) ELSE NullRef,
          ports |-> IF PortGiven(port) THEN Arr(<<port.val>>) ELSE NullRef]
    [] stage = "hostOnly" -> [serverIPs |-> Arr(<<host>>), ports |-> Arr(<<port.val>>)]
    [] stage = "portOnly" -> [serverIPs |-> NullRef, ports |-> Arr(<<port.val>>)]
    [] OTHER -> [serverIPs |-> NullRef, ports |-> NullRef]

\* Stage arguments whose port-only stage keeps the host hint.
StageArgsPortOnlyWithHost(stage, host, port) ==
  CASE stage = "hinted" ->
         [serverIPs |-> IF HostGiven(host) THEN Arr(<<host>>) ELSE NullRef,
          ports |-> IF PortGiven(port) THEN Arr(<<port.val>>) ELSE NullRef]
    [] stage = "hostOnly" -> [serverIPs |-> Arr(<<host>>), ports |-> NullRef]
    [] stage = "portOnly" -> [serverIPs |-> Arr(<<host>>), ports |-> Arr(<<port.val>>)]
    [] OTHER -> [serverIPs |-> NullRef, ports |-> NullRef]

\* The arguments of the getServerList call of a stage (lines 265-267,
\* 275, 281, 290).
StageArgs(stage, host, port) ==
  CASE stage = "hinted" ->
         [serverIPs |-> IF HostGiven(host) THEN Arr(<<host>>) ELSE NullRef,
          ports |-> IF PortGiven(port) THEN Arr(<<port.val>>) ELSE NullRef]
    [] stage = "hostOnly" -> [serverIPs |-> Arr(<<host>>), ports |-> NullRef]
    [] stage = "portOnly" -> [serverIPs |-> NullRef, ports |-> Arr(<<port.val>>)]
    [] OTHER -> [serverIPs |-> NullRef, ports |-> NullRef]

\* A return statement that takes the last match.
ReturnValueLast(resultList) ==
  IF Len(resultList) > 0 THEN resultList[Len(resultList)] ELSE NullRef

\* resultList.length > 0 ? resultList[0] : null (line 295).
ReturnValue(resultList) == IF Len(resultList) > 0 THEN resultList[1] ELSE NullRef

\* The stage `stage` is entered: its getServerList call is started and
\* noted in the rounds of the resolution, whose entries tell how each
\* round ended: "found" (matches), "empty" (a list without a match) or
\* "rejected".
EnterStage(r, stage, fc) ==
  LET args == StageArgs(stage, r.host, r.port)
      sc == StartCall(args.serverIPs, args.ports, fc)
  IN [resolver |-> [r EXCEPT !.pc = "running",
                             !.rounds = Append(@, [stage |-> stage, outcome |-> "pending"])],
      call |-> sc.call,
      fetchCalls |-> sc.fetchCalls]

\* getServerInfo resumes after the await of a getServerList call that has
\* settled as c: a rejection is thrown on, a list is filtered by name and
\* the next stage is entered or the result returned.
Resume(r, c, fc) ==
  LET n == Len(r.rounds)
      stage == r.rounds[n].stage
      resultList == MatchName(c.value, r.serverName)
      r1 == [r EXCEPT !.rounds[n].outcome =
                        IF c.pc = "rejected" THEN "rejected"
                        ELSE IF Len(resultList) > 0 THEN "found" ELSE "empty"]
      next == NextStage(stage, resultList, r.fallback, r.host, r.port)
  IN IF c.pc = "rejected"
       THEN [resolver |-> [r1 EXCEPT !.pc = "rejected"], call |-> c, fetchCalls |-> fc]
     ELSE IF next = "return"
       THEN [resolver |-> [r1 EXCEPT !.pc = "resolved", !.result = ReturnValue(resultList)],
             call |-> c, fetchCalls |-> fc]
     ELSE EnterStage(r1, next, fc)

\* A getServerInfo that goes on without awaiting the call it has made.
SettleWithoutAwait(c) ==
  IF resolver.pc = "running"
    THEN \E k \in {Resume(resolver, c, fetchCalls)} :
            /\ call' = k.call
            /\ resolver' = k.resolver
            /\ fetchCalls' = k.fetchCalls
    ELSE /\ call' = c
         /\ UNCHANGED <<resolver, fetchCalls>>

\* The state after the getServerList call has moved to c: when it has
\* settled and getServerInfo awaits it, getServerInfo resumes in the same
\* step.
Settle(c) ==
  IF resolver.pc = "running" /\ c.pc \in {"resolved", "rejected"}
    THEN \E k \in {Resume(resolver, c, fetchCalls)} :
            /\ call' = k.call
            /\ resolver' = k.resolver
            /\ fetchCalls' = k.fetchCalls
    ELSE /\ call' = c
         /\ UNCHANGED <<resolver, fetchCalls>>

\* ---------------------------------------------------------------------
\* The steps of getServerList and getServerInfo
\* ---------------------------------------------------------------------

\* getServerList(serverIPs, ports) is called while no call is running.
GetServerList(serverIPs, ports) ==
  /\ loaded
  /\ call.pc \in {"idle", "resolved", "rejected"}
  /\ resolver.pc # "running"
  /\ IF Truthy(serverIPs)
       THEN TargetCount(serverIPs.list, ports) <= MaxTargets
       ELSE FetchCallCount(SERVER_LIST_URI) < MaxFetches
  /\ \E k \in {StartCall(serverIPs, ports, fetchCalls)} :
       /\ call' = k.call
       /\ fetchCalls' = k.fetchCalls
  /\ lastOp' = [op |-> "getServerList"]
  /\ UNCHANGED <<loaded, memo, cacheFetches, delivered, resolver>>

\* The server-list fetch resolves with `serverList` (lines 221-223).
ServerListResolved(serverList) ==
  /\ call.pc = "fetchingList"
  /\ TargetCount(ParseServerList(serverList), call.ports) <= MaxTargets
  /\ \E c \in {Dispatch(call, ParseServerList(serverList))} : Settle(c)
  /\ lastOp' = [op |-> "serverListResolved"]
  /\ UNCHANGED <<loaded, memo, cacheFetches, delivered>>

\* The server-list fetch rejects: the rejection propagates out of
\* getServerPromises and getServerList.
ServerListRejected ==
  /\ call.pc = "fetchingList"
  /\ Settle([call EXCEPT !.pc = "rejected", !.reason = "fetch"])
  /\ lastOp' = [op |-> "serverListRejected"]
  /\ UNCHANGED <<loaded, memo, cacheFetches, delivered>>

\* A fan-out that has one query in flight at a time: target i is answered
\* only after the targets before it.
QuerySettledInDispatchOrder(i, g) ==
  /\ call.pc = "querying"
  /\ call.promises[i] = Pending
  /\ i = Len(call.order) + 1
  /\ \E c \in {AwaitQueries([call EXCEPT !.promises[i] = QueryPromise(g),
                                              !.order = Append(@, i)])} : Settle(c)
  /\ lastOp' = [op |-> "querySettled", target |-> i]
  /\ UNCHANGED <<loaded, memo, cacheFetches, delivered>>

\* Gamedig answers the query of target i with g.
QuerySettled(i, g) ==
  /\ call.pc = "querying"
  /\ call.promises[i] = Pending
  /\ \E c \in {AwaitQueries([call EXCEPT !.promises[i] = QueryPromise(g),
                                              !.order = Append(@, i)])} : Settle(c)
  /\ lastOp' = [op |-> "querySettled", target |-> i]
  /\ UNCHANGED <<loaded, memo, cacheFetches, delivered>>

\* ---------------------------------------------------------------------
\* Specification of the server fan-out
\* ---------------------------------------------------------------------

NextList ==
  \/ ModuleInit
  \/ \E serverIPs \in ServerIPArgs, ports \in PortArgs : GetServerList(serverIPs, ports)
  \/ \E serverList \in ServerListBodies : ServerListResolved(serverList)
  \/ ServerListRejected
  \/ \E i \in DOMAIN call.promises :
       \E g \in GdOutcomes(call.targets[i].host, call.targets[i].port) : QuerySettled(i, g)

SpecList == Init /\ [][NextList]_vars

\* ---------------------------------------------------------------------
\* Specification of the lookup by name
\* ---------------------------------------------------------------------

\* The hints and names the model passes to getServerInfo.
ServerNames == {"Srv-A"}

HostHints == {Null, "10.0.0.2"}

PortHints == {NullRef, Num(27015)}

\* Where the server named serverName lives: anywhere (NullRef: every
\* query may be answered in any way), or at one host and port, which then
\* always answers with that name while no other target does.
Homes == {NullRef, [null |-> FALSE, host |-> "10.0.0.1", port |-> 27017]}

\* The number of server-list fetches a resolution can need: one for each
\* stage that has no host list.
FetchesNeeded(host, port, fallback) ==
  (IF HostGiven(host) THEN 0 ELSE 1)
  + (IF fallback /\ HostGiven(host) /\ PortGiven(port) THEN 1 ELSE 0)
  + (IF fallback /\ (HostGiven(host) \/ PortGiven(port)) THEN 1 ELSE 0)

\* getServerInfo(serverName, {host, port, fallback}) is called while no
\* call is running: the hinted stage is entered (lines 265-268).
GetServerInfo(serverName, host, port, fallback, home) ==
  /\ loaded
  /\ call.pc \in {"idle", "resolved", "rejected"}
  /\ resolver.pc # "running"
  /\ FetchCallCount(SERVER_LIST_URI) + FetchesNeeded(host, port, fallback) <= MaxFetches
  /\ \E k \in {EnterStage([pc |-> "running", serverName |-> serverName, host |-> host,
                            port |-> port, fallback |-> fallback, home |-> home,
                            rounds |-> <<>>, result |-> NullRef],
                           "hinted", fetchCalls)} :
        /\ resolver' = k.resolver
        /\ call' = k.call
        /\ fetchCalls' = k.fetchCalls
  /\ lastOp' = [op |-> "getServerInfo"]
  /\ UNCHANGED <<loaded, memo, cacheFetches, delivered>>

\* The answers Gamedig can give to a query of (host, port) during the
\* resolution r: a rejection or a well-formed name, in keeping with where
\* the server lives.
WorldOutcomes(r, host, port) ==
  LET answers == {g \in GdOutcomes(host, port) : ~g.ok \/ Len(g.result.name) = 2}
      named == {g \in answers : g.ok /\ g.result.name[1] = r.serverName}
  IN IF r.home.null THEN answers
     ELSE IF r.home.host = host /\ r.home.port = port THEN named
     ELSE answers \ named

NextResolver ==
  \/ ModuleInit
  \/ \E serverName \in ServerNames, host \in HostHints, port \in PortHints,
        fallback \in BOOLEAN, home \in Homes :
       GetServerInfo(serverName, host, port, fallback, home)
  \/ \E serverList \in ServerListBodies : ServerListResolved(serverList)
  \/ ServerListRejected
  \/ \E i \in DOMAIN call.promises :
       \E g \in WorldOutcomes(resolver, call.targets[i].host, call.targets[i].port) :
         QuerySettled(i, g)

SpecResolver == Init /\ [][NextResolver]_vars

\* The server-list fetch of the call settles: http.get ends the response
\* or reports an error (lines 73-82).
ListFetchSettles ==
  \/ \E serverList \in ServerListBodies : ServerListResolved(serverList)
  \/ ServerListRejected

\* A query of the call settles: Gamedig answers or gives up after its
\* attempts and socket timeout (lines 202-205).
QueryAnswered ==
  \E i \in DOMAIN call.promises :
    \E g \in WorldOutcomes(resolver, call.targets[i].host, call.targets[i].port) :
      QuerySettled(i, g)

\* The lookup by name in a world where every server-list fetch and every
\* dispatched query eventually settles.
SpecResolverLive ==
  SpecResolver /\ WF_vars(ListFetchSettles) /\ WF_vars(QueryAnswered)

\* ---------------------------------------------------------------------
\* The whole module
\* ---------------------------------------------------------------------

Next == NextCache \/ NextList \/ NextResolver

Spec == Init /\ [][Next]_vars

\* ---------------------------------------------------------------------
\* Properties of the cache (checked under SpecCache)
\* ---------------------------------------------------------------------

\* The endpoints that have a cached accessor.
CachedEndpoints == {VERSION_URI, STATUS_URI, NEWS_URI}

CachedAccessors == {"getCachedVersion", "getCachedStatus", "getCachedNews"}

FreshAccessors == {"getVersion", "getStatus", "getNews"}

\* The closure state an endpoint's accessor works on, if it exists.
HasEntry(m, apiUri) == MemoKey(BASE_URI, apiUri) \in DOMAIN m

Entry(m, apiUri) == m[MemoKey(BASE_URI, apiUri)]

\* The cacher's fetches for apiUri that are outstanding.
OutstandingIn(cf, apiUri) == cf[MemoKey(BASE_URI, apiUri)]

Outstanding(apiUri) == OutstandingIn(cacheFetches, apiUri)

\* The cacher's fetches for apiUri that have failed so far.
Failures(apiUri) == fetchCalls[apiUri].cacher - Outstanding(apiUri) - Len(delivered[apiUri])

\* C1: for every cache key at most one fetch started by the cacher is
\* outstanding, in every reachable state; so the get calls issued while
\* a fetch is outstanding start no second one.
C1_SingleFlight == \A key \in MemoKeys : cacheFetches[key] <= 1

\* A get found the primed fetch still outstanding and started no other.
C1_Witness ==
  /\ lastOp.op \in CachedAccessors
  /\ Outstanding(lastOp.uri) = 1
  /\ fetchCalls[lastOp.uri].cacher = 1
  /\ Failures(lastOp.uri) = 0

\* C2: a get returns null as long as no fetch of its key has succeeded,
\* and returns exactly the delivered text once one has; it returns
\* nothing else.
C2_GetReturnsDelivered ==
  lastOp.op \in CachedAccessors =>
    IF delivered[lastOp.uri] = <<>>
      THEN lastOp.ret = Null
      ELSE \A k \in DOMAIN delivered[lastOp.uri] : lastOp.ret = delivered[lastOp.uri][k]

\* A get returned the text a fetch delivered.
C2_Witness ==
  /\ lastOp.op \in CachedAccessors
  /\ delivered[lastOp.uri] = <<"281.110">>
  /\ lastOp.ret = "281.110"

\* C3: a failing fetch leaves the value null, clears the flag and starts
\* no fetch; the next get on the key, after any number of failures,
\* starts exactly one fetch and returns null.
C3_RetryAfterFailure ==
  [][/\ lastOp'.op = "fetchRejected" =>
          /\ Entry(memo', lastOp'.uri).cachedValue = Null
          /\ Entry(memo', lastOp'.uri).inProgress = FALSE
          /\ OutstandingIn(cacheFetches', lastOp'.uri) = 0
          /\ fetchCalls' = fetchCalls
     /\ \A u \in CachedEndpoints :
          (/\ lastOp'.op \in CachedAccessors
           /\ lastOp'.uri = u
           /\ Failures(u) > 0
           /\ Outstanding(u) = 0
           /\ delivered[u] = <<>>) =>
             /\ fetchCalls'[u].cacher = fetchCalls[u].cacher + 1
             /\ OutstandingIn(cacheFetches', u) = 1
             /\ lastOp'.ret = Null]_vars

\* A get after two failures has started the third fetch.
C3_Witness ==
  /\ lastOp.op \in CachedAccessors
  /\ Failures(lastOp.uri) = 2
  /\ Outstanding(lastOp.uri) = 1
  /\ lastOp.ret = Null

\* C4: once a fetch of a key has succeeded, no later step starts another
\* fetch for the key's cacher and the cached value never changes.
C4_FetchedOnce ==
  [][\A u \in CachedEndpoints :
       delivered[u] # <<>> =>
         /\ fetchCalls'[u].cacher = fetchCalls[u].cacher
         /\ delivered'[u] = delivered[u]
         /\ Entry(memo', u).cachedValue = Entry(memo, u).cachedValue
         /\ Entry(memo, u).cachedValue = delivered[u][1]]_vars

\* A get on a key whose fetch delivered the empty body.
C4_Witness ==
  /\ lastOp.op \in CachedAccessors
  /\ delivered[lastOp.uri] = <<"">>
  /\ lastOp.ret = ""
  /\ Outstanding(lastOp.uri) = 0

\* C5: a get, a fetch success or a fetch failure for one endpoint leaves
\* the entry (value and flag) and the outstanding fetches of every other
\* endpoint unchanged.
C5_KeysIndependent ==
  [][\A u \in CachedEndpoints :
       (lastOp'.op \in CachedAccessors \cup {"fetchResolved", "fetchRejected"} /\ lastOp'.uri = u) =>
         \A other \in CachedEndpoints \ {u} :
           /\ HasEntry(memo', other) = HasEntry(memo, other)
           /\ HasEntry(memo, other) => Entry(memo', other) = Entry(memo, other)
           /\ OutstandingIn(cacheFetches', other) = Outstanding(other)
           /\ fetchCalls'[other] = fetchCalls[other]]_vars

\* A fetch of one key failed while the fetches of the two other keys
\* were outstanding.
C5_Witness ==
  /\ lastOp.op = "fetchRejected"
  /\ lastOp.uri = STATUS_URI
  /\ Outstanding(VERSION_URI) = 1
  /\ Outstanding(NEWS_URI) = 1
  /\ Outstanding(STATUS_URI) = 0

\* C6 as stated: right after module initialisation each of version,
\* status, news and server-list has a cache entry with a fetch in progress.
C6_FourEndpointsPrimed ==
  lastOp.op = "moduleInit" =>
    \A u \in {VERSION_URI, STATUS_URI, NEWS_URI, SERVER_LIST_URI} :
      /\ HasEntry(memo, u)
      /\ Entry(memo, u).inProgress
      /\ Outstanding(u) = 1

\* C6, amended: right after module initialisation each of version, status
\* and news has a cache entry with one fetch in progress, and the
\* server-list endpoint has no cache entry and no fetch.
C6_ThreeEndpointsPrimed ==
  lastOp.op = "moduleInit" =>
    /\ \A u \in CachedEndpoints :
         /\ HasEntry(memo, u)
         /\ Entry(memo, u).inProgress
         /\ Entry(memo, u).cachedValue = Null
         /\ Outstanding(u) = 1
         /\ fetchCalls[u] = [cacher |-> 1, direct |-> 0]
    /\ ~HasEntry(memo, SERVER_LIST_URI)
    /\ Outstanding(SERVER_LIST_URI) = 0
    /\ fetchCalls[SERVER_LIST_URI] = [cacher |-> 0, direct |-> 0]

\* The module has just been loaded.
C6_Witness == loaded /\ lastOp.op = "moduleInit" /\ DOMAIN memo # {}

\* C7 as stated: a getVersion, getStatus or getNews call made while the
\* cacher's fetch for the endpoint is outstanding, or after its value has
\* been cached, starts no fetch.
C7_FreshAccessorsPassThrough ==
  [][\A u \in CachedEndpoints :
       (/\ lastOp'.op \in FreshAccessors
        /\ lastOp'.uri = u
        /\ (Outstanding(u) > 0 \/ Entry(memo, u).cachedValue # Null)) =>
          fetchCalls'[u] = fetchCalls[u]]_vars

\* C7, amended: getCachedVersion, getCachedStatus and getCachedNews go
\* through the cache and start no fetch while one is outstanding or the
\* value is cached; getVersion, getStatus and getNews bypass the cache:
\* every call starts one new fetch and leaves the cache entry alone.
C7_OnlyCachedAccessorsPassThrough ==
  [][\A u \in CachedEndpoints :
       /\ (/\ lastOp'.op \in CachedAccessors
           /\ lastOp'.uri = u
           /\ (Outstanding(u) > 0 \/ Entry(memo, u).cachedValue # Null)) =>
             fetchCalls'[u] = fetchCalls[u]
       /\ (lastOp'.op \in FreshAccessors /\ lastOp'.uri = u) =>
             /\ fetchCalls'[u] = [fetchCalls[u] EXCEPT !.direct = @ + 1]
             /\ memo' = memo
             /\ cacheFetches' = cacheFetches]_vars

\* getVersion was called while the version was cached, and fetched again.
C7_Witness ==
  /\ lastOp.op = "getVersion"
  /\ Entry(memo, VERSION_URI).cachedValue = "281.110"
  /\ fetchCalls[VERSION_URI].direct = 1

\* ---------------------------------------------------------------------
\* Properties of the server fan-out (checked under SpecList)
\* ---------------------------------------------------------------------

\* The targets of the call whose query succeeded: Gamedig answered and a
\* record could be made of the answer.
Succeeded == {i \in DOMAIN call.promises : call.promises[i].state = "fulfilled"}

\* The targets of the call whose query failed.
Failed == {i \in DOMAIN call.promises : call.promises[i].state = "rejected"}

\* The number of times record v occurs in the returned list.
TimesReturned(v) == Cardinality({j \in DOMAIN call.value : call.value[j] = v})

\* The number of succeeding targets whose record is v.
TimesSucceeded(v) == Cardinality({i \in Succeeded : call.promises[i].value = v})

\* C8: whatever the split into failing and succeeding queries and the
\* order of their completions, the list getServerList returns holds
\* exactly one record per succeeding target and none for a failing one.
C8_SucceedingRecordsOnly ==
  call.pc = "resolved" =>
    /\ Len(call.value) = Cardinality(Succeeded)
    /\ \A i \in Succeeded : TimesReturned(call.promises[i].value) = TimesSucceeded(call.promises[i].value)
    /\ \A j \in DOMAIN call.value :
         /\ ~call.value[j].null
         /\ \E i \in Succeeded : call.promises[i].value = call.value[j]

\* Four targets, two failed, one of them first, and two records returned.
C8_Witness ==
  /\ call.pc = "resolved"
  /\ Len(call.targets) = 4
  /\ Cardinality(Failed) = 2
  /\ call.order[1] \in Failed
  /\ call.order[4] \in Failed
  /\ Len(call.value) = 2

\* C9: getServerList is rejected only when no IP list was supplied and
\* the server-list fetch failed; with an IP list, the empty one included,
\* it resolves to a list.
C9_RejectsOnlyOnListFetchFailure ==
  /\ call.pc = "rejected" => (~Truthy(call.serverIPs) /\ call.reason = "fetch")
  /\ (Truthy(call.serverIPs) /\ call.pc \notin {"idle", "querying"}) => call.pc = "resolved"

RECURSIVE RecordsInOrder(_)
\* The records of the succeeding targets, taken in the order in which the
\* target indexes are listed.
RecordsInOrder(indexes) ==
  IF indexes = <<>> THEN <<>>
  ELSE IF Head(indexes) \in Succeeded
    THEN <<call.promises[Head(indexes)].value>> \o RecordsInOrder(Tail(indexes))
    ELSE RecordsInOrder(Tail(indexes))

\* C10 as stated: the returned list is in the completion order of the
\* successful queries.
C10_CompletionOrder ==
  call.pc = "resolved" => call.value = RecordsInOrder(call.order)

\* C10, amended: the returned list is in the dispatch order of the
\* targets (IP-major, then port), whatever the completion order.
C10_DispatchOrder ==
  call.pc = "resolved" =>
    call.value = RecordsInOrder([i \in DOMAIN call.targets |-> i])

\* Two queries succeeded in the reverse of their dispatch order.
C10_Witness ==
  /\ call.pc = "resolved"
  /\ Len(call.value) >= 2
  /\ \E a, b \in DOMAIN call.order :
       /\ a < b
       /\ call.order[a] > call.order[b]
       /\ {call.order[a], call.order[b]} \subseteq Succeeded

\* The IP list and the port list a call works with, as the claim names
\* them: the supplied list, else the fetched one; the supplied list, else
\* the four default ports.
IPListInUse == call.useServerIPs.list

PortListInUse ==
  IF call.ports.null THEN <<27015, 27017, 27019, 27021>> ELSE call.ports.list

\* C11: the queries of one getServerList call are the Cartesian product
\* of the IP list in use and the port list in use: one query for every
\* position pair, |ips| x |ports| in all, and no pair is queried twice
\* when the lists name no IP or port twice.
C11_TargetsAreProduct ==
  ~call.useServerIPs.null =>
    /\ Len(call.targets) = Len(IPListInUse) * Len(PortListInUse)
    /\ \A i \in DOMAIN IPListInUse : \A j \in DOMAIN PortListInUse :
         call.targets[(i - 1) * Len(PortListInUse) + j]
           = [host |-> IPListInUse[i], port |-> PortListInUse[j]]
    /\ \A a, b \in DOMAIN call.targets : call.targets[a] = call.targets[b] => a = b
    /\ DOMAIN call.promises = DOMAIN call.targets

\* A fetched list of one IP is queried on the four default ports.
C11_Witness ==
  /\ call.pc = "querying"
  /\ call.serverIPs.null
  /\ call.ports.null
  /\ Len(call.targets) = 4
  /\ call.targets[3] = [host |-> "10.0.0.1", port |-> 27019]

\* C12: a getServerList call with an IP list fetches nothing; a call
\* without one makes exactly one fetchUri call for the server list, at the
\* start, and no step of a call touches a cache entry.
C12_ListFetchedPerCall ==
  [][/\ (lastOp'.op = "getServerList" /\ ~call'.serverIPs.null) => fetchCalls' = fetchCalls
     /\ (lastOp'.op = "getServerList" /\ call'.serverIPs.null) =>
          /\ fetchCalls' = [fetchCalls EXCEPT ![SERVER_LIST_URI].direct = @ + 1]
          /\ call'.pc = "fetchingList"
     /\ lastOp'.op \in {"serverListResolved", "serverListRejected", "querySettled"} =>
          fetchCalls' = fetchCalls
     /\ lastOp'.op \in {"getServerList", "serverListResolved", "serverListRejected",
                        "querySettled"} =>
          /\ memo' = memo
          /\ cacheFetches' = cacheFetches
          /\ delivered' = delivered]_vars

\* The second call without an IP list has made the second fetch.
C12_Witness ==
  /\ lastOp.op = "getServerList"
  /\ call.serverIPs.null
  /\ call.pc = "fetchingList"
  /\ fetchCalls[SERVER_LIST_URI] = [cacher |-> 0, direct |-> 2]

\* ---------------------------------------------------------------------
\* Properties of the lookup by name (checked under SpecResolver)
\* ---------------------------------------------------------------------

\* The hints that were supplied.
HostHinted == resolver.host # Null

PortHinted == ~resolver.port.null

\* The stage was entered in this resolution.
Entered(stage) == \E i \in DOMAIN resolver.rounds : resolver.rounds[i].stage = stage

\* The stage was entered and ended with the given outcome.
Ended(stage, outcome) ==
  \E i \in DOMAIN resolver.rounds :
    resolver.rounds[i].stage = stage /\ resolver.rounds[i].outcome = outcome

\* C13: if the hinted stage returns a record whose name is serverName,
\* exactly one query round is performed, whatever the hints and fallback.
C13_ShortCircuit ==
  Ended("hinted", "found") =>
    /\ Len(resolver.rounds) = 1
    /\ resolver.pc = "resolved"
    /\ ~Entered("hostOnly") /\ ~Entered("portOnly") /\ ~Entered("fullScan")

\* With both hints and fallback the hinted stage found the name.
C13_Witness ==
  /\ resolver.pc = "resolved"
  /\ HostHinted /\ PortHinted /\ resolver.fallback
  /\ resolver.rounds = <<[stage |-> "hinted", outcome |-> "found"]>>
  /\ resolver.result.name = "Srv-A"

\* C14: the host-only stage is entered exactly when the hinted stage found
\* no match, fallback is on and both hints were supplied; the port-only
\* stage exactly when the host-only stage was entered and found no match;
\* with one hint alone neither is.
C14_HostOnlyPortOnly ==
  /\ Entered("hostOnly") <=>
       (Ended("hinted", "empty") /\ resolver.fallback /\ HostHinted /\ PortHinted)
  /\ Entered("portOnly") <=> Ended("hostOnly", "empty")
  /\ (HostHinted # PortHinted) => (~Entered("hostOnly") /\ ~Entered("portOnly"))
  /\ Entered("hostOnly") => resolver.rounds[2].stage = "hostOnly"
  /\ Entered("portOnly") => resolver.rounds[3].stage = "portOnly"

\* The host-only stage found the name, so the port-only stage did not run.
C14_Witness ==
  /\ resolver.pc = "resolved"
  /\ Ended("hostOnly", "found")
  /\ ~Entered("portOnly")
  /\ Len(resolver.rounds) = 2

\* C15: the full-scan stage is entered exactly when every earlier stage
\* that ran ended with a list without a match, fallback is on and at
\* least one hint was supplied.
C15_FullScan ==
  Entered("fullScan") <=>
    (/\ \E i \in DOMAIN resolver.rounds : resolver.rounds[i].stage # "fullScan"
     /\ \A i \in DOMAIN resolver.rounds :
          resolver.rounds[i].stage # "fullScan" => resolver.rounds[i].outcome = "empty"
     /\ resolver.fallback
     /\ (HostHinted \/ PortHinted))

\* The full scan runs as the fourth round.
C15_Witness ==
  /\ Len(resolver.rounds) = 4
  /\ resolver.rounds[4].stage = "fullScan"
  /\ resolver.rounds[3] = [stage |-> "portOnly", outcome |-> "empty"]

\* C16: without any hint getServerInfo performs exactly one round, the
\* full fleet on the default ports, whatever fallback is and whether or
\* not the name is found.
C16_NoHintOneRound ==
  (resolver.pc # "idle" /\ ~HostHinted /\ ~PortHinted) =>
    /\ Len(resolver.rounds) = 1
    /\ resolver.rounds[1].stage = "hinted"
    /\ call.serverIPs.null
    /\ call.ports.null
    /\ resolver.rounds[1].outcome # "pending" => resolver.pc \in {"resolved", "rejected"}

\* Without hints and with fallback on, the one round found nothing and
\* the resolution returned.
C16_Witness ==
  /\ resolver.pc = "resolved"
  /\ ~HostHinted /\ ~PortHinted /\ resolver.fallback
  /\ resolver.rounds = <<[stage |-> "hinted", outcome |-> "empty"]>>
  /\ resolver.result.null

\* The server lives at one place, which neither hint names.
BothHintsWrong ==
  /\ ~resolver.home.null
  /\ HostHinted /\ PortHinted
  /\ resolver.host # resolver.home.host
  /\ resolver.port.val # resolver.home.port

\* The last round queried the place where the server lives.
HomeQueried ==
  \E i \in DOMAIN call.targets :
    call.targets[i] = [host |-> resolver.home.host, port |-> resolver.home.port]

\* C17: for a server that answers with the requested name only at a fleet
\* (host, port) that differs from both hints, getServerInfo with fallback
\* returns that server's record, found by the full scan of a fleet that
\* lists the host; without fallback it returns null after the hinted
\* stage alone.
C17_FallbackCompleteness ==
  (resolver.pc = "resolved" /\ BothHintsWrong) =>
    IF resolver.fallback
      THEN /\ Len(resolver.rounds) = 4
           /\ resolver.rounds[4].stage = "fullScan"
           /\ HomeQueried =>
                /\ ~resolver.result.null
                /\ resolver.result.name = resolver.serverName
                /\ resolver.result.gamedigQueryResult.host = resolver.home.host
                /\ resolver.result.gamedigQueryResult.port = resolver.home.port
           /\ ~HomeQueried => resolver.result.null
      ELSE /\ resolver.result.null
           /\ Len(resolver.rounds) = 1
           /\ resolver.rounds[1].stage = "hinted"

\* The full scan returned the record of the server that the hints missed.
C17_Witness ==
  /\ resolver.pc = "resolved"
  /\ BothHintsWrong
  /\ resolver.fallback
  /\ HomeQueried
  /\ resolver.rounds[4] = [stage |-> "fullScan", outcome |-> "found"]
  /\ resolver.result.gamedigQueryResult.port = 27017

\* C18 as stated: getServerInfo never ends in an error; when no stage
\* yields a match, failing queries or fetches included, it returns null.
C18_NeverAnError ==
  /\ resolver.pc # "rejected"
  /\ (resolver.pc = "resolved" /\ ~Ended("hinted", "found") /\ ~Ended("hostOnly", "found")
        /\ ~Ended("portOnly", "found") /\ ~Ended("fullScan", "found")) => resolver.result.null

\* C18, amended: getServerInfo ends in an error exactly when the
\* server-list fetch of a round without a host list fails; a failing
\* query never makes it fail, and when it returns and no stage has
\* yielded a match, the result is null.
C18_ErrorOnlyOnListFetchFailure ==
  /\ resolver.pc = "rejected" =>
       /\ call.pc = "rejected"
       /\ call.reason = "fetch"
       /\ call.serverIPs.null
       /\ lastOp.op = "serverListRejected"
       /\ resolver.rounds[Len(resolver.rounds)].outcome = "rejected"
  /\ (lastOp.op = "serverListRejected" /\ resolver.pc # "idle") => resolver.pc = "rejected"
  /\ (resolver.pc # "idle" /\ Failed # {}) => resolver.pc \in {"running", "resolved"}
  /\ (resolver.pc = "resolved" /\ ~Ended("hinted", "found") /\ ~Ended("hostOnly", "found")
        /\ ~Ended("portOnly", "found") /\ ~Ended("fullScan", "found")) => resolver.result.null

\* Every query of the last round failed and the resolution returned null.
C18_Witness ==
  /\ resolver.pc = "resolved"
  /\ resolver.result.null
  /\ Len(call.targets) = 4
  /\ Cardinality(Failed) = 4
  /\ Len(resolver.rounds) = 2

\* C19: a record that getServerInfo returns bears the name serverName and
\* is the first matching record of the list of the earliest stage that
\* had a match; that stage is the last one run, every earlier one having
\* ended without a match.
C19_FirstMatchOfFirstStage ==
  (resolver.pc = "resolved" /\ ~resolver.result.null) =>
    /\ resolver.result.name = resolver.serverName
    /\ \E j \in DOMAIN call.value :
         /\ call.value[j] = resolver.result
         /\ \A k \in 1..(j - 1) : call.value[k].name # resolver.serverName
    /\ resolver.rounds[Len(resolver.rounds)].outcome = "found"
    /\ \A i \in 1..(Len(resolver.rounds) - 1) : resolver.rounds[i].outcome = "empty"

\* The list of the last round holds another server, then two records of
\* the name; the first of the two is returned.
C19_Witness ==
  /\ resolver.pc = "resolved"
  /\ Len(call.value) >= 3
  /\ call.value[1].name = "Srv-B"
  /\ call.value[2].name = "Srv-A"
  /\ call.value[3].name = "Srv-A"
  /\ resolver.result = call.value[2]
  /\ Len(resolver.rounds) = 2

\* C20: a getServerList call settles only when every query it dispatched
\* has settled: while a query is pending the call is pending, also after
\* other queries have failed.
C20_NoCancellation ==
  /\ (\E i \in DOMAIN call.promises : call.promises[i] = Pending) => call.pc = "querying"
  /\ call.pc = "resolved" => Len(call.order) = Len(call.targets)
  /\ call.pc = "rejected" => call.promises = <<>>

\* A call is pending on its last query after the three others failed.
C20_Witness ==
  /\ call.pc = "querying"
  /\ Len(call.targets) = 4
  /\ Cardinality(Failed) = 3
  /\ call.promises[2] = Pending

\* The targets whose query has been answered.
Answered == {call.order[k] : k \in DOMAIN call.order}

\* C21: within one getServerList call every target's query is dispatched
\* before any is awaited: while the call awaits its queries, each target
\* has a query of its own, the unanswered ones are all in flight, and any
\* of them can be the next to be answered, so that every completion order
\* can occur.
C21_AllInFlight ==
  call.pc = "querying" =>
    /\ Len(call.promises) = Len(call.targets)
    /\ \A i \in DOMAIN call.promises : (call.promises[i] = Pending) <=> (i \notin Answered)
    /\ \A i \in DOMAIN call.promises :
         call.promises[i] = Pending => ENABLED QuerySettled(i, [ok |-> FALSE])

\* The four queries of a call were answered in the reverse of their
\* dispatch order.
C21_Witness ==
  /\ call.pc = "resolved"
  /\ Len(call.targets) = 4
  /\ call.order = <<4, 3, 2, 1>>

\* The place of a stage in the order of lines 265-293.
StageRank(stage) ==
  CASE stage = "hinted" -> 1
    [] stage = "hostOnly" -> 2
    [] stage = "portOnly" -> 3
    [] OTHER -> 4

\* The targets of the call that have no answer yet.
Unanswered == {i \in DOMAIN call.promises : call.promises[i] = Pending}

\* A step of a resolution that enters a further stage.
EntersFurtherStage ==
  /\ lastOp'.op # "getServerInfo"
  /\ Len(resolver'.rounds) = Len(resolver.rounds) + 1

\* C22: the stages of one resolution run in the order hinted, host-only,
\* port-only, full-scan and never overlap: a further stage is entered
\* only in the step in which the last unanswered query of the stage
\* before it is answered, and that stage returned a list without a match;
\* no query of the new stage has an answer then.
C22_StagesInOrder ==
  /\ [](resolver.pc # "idle" =>
          /\ resolver.rounds[1].stage = "hinted"
          /\ \A i \in 1..(Len(resolver.rounds) - 1) :
               /\ StageRank(resolver.rounds[i].stage) < StageRank(resolver.rounds[i + 1].stage)
               /\ resolver.rounds[i].outcome = "empty")
  /\ [][EntersFurtherStage =>
          /\ call.pc = "querying"
          /\ Cardinality(Unanswered) = 1
          /\ lastOp'.op = "querySettled"
          /\ lastOp'.target \in Unanswered
          /\ resolver'.rounds[Len(resolver.rounds)].outcome = "empty"
          /\ call'.order = <<>>
          /\ \A i \in DOMAIN call'.promises : call'.promises[i] = Pending]_vars

\* The port-only stage is under way after the hinted and the host-only
\* stage ended without a match.
C22_Witness ==
  /\ resolver.pc = "running"
  /\ Len(resolver.rounds) = 3
  /\ resolver.rounds[2] = [stage |-> "hostOnly", outcome |-> "empty"]
  /\ resolver.rounds[3] = [stage |-> "portOnly", outcome |-> "pending"]
  /\ call.pc = "querying"
  /\ Cardinality(Unanswered) = 1

\* The stage of the round under way, or of the last round.
CurrentStage == resolver.rounds[Len(resolver.rounds)].stage

\* The stage queries the host hint alone / the port hint alone.
UsesHostHint == CurrentStage = "hostOnly" \/ (CurrentStage = "hinted" /\ HostHinted)

UsesPortHint == CurrentStage = "portOnly" \/ (CurrentStage = "hinted" /\ PortHinted)

\* The default ports.
DefaultPorts == <<27015, 27017, 27019, 27021>>

\* The IPs and ports a stage is to query: the hint alone, or else the
\* fleet IPs parsed from the fetched server list and the default ports.
StageIPs == IF UsesHostHint THEN <<resolver.host>> ELSE IPListInUse

StagePorts == IF UsesPortHint THEN <<resolver.port.val>> ELSE DefaultPorts

\* C23: each stage queries exactly (the host hint alone where the stage
\* uses it, else all fleet IPs) x (the port hint alone where the stage
\* uses it, else the default ports): hinted uses the hints given,
\* host-only the host hint, port-only the port hint, full-scan neither.
\* The fleet IPs are the ones of a server list fetched for the round.
C23_StageTargets ==
  (resolver.pc # "idle" /\ ~call.useServerIPs.null) =>
    /\ call.serverIPs.null <=> ~UsesHostHint
    /\ Len(call.targets) = Len(StageIPs) * Len(StagePorts)
    /\ \A i \in DOMAIN StageIPs : \A j \in DOMAIN StagePorts :
         call.targets[(i - 1) * Len(StagePorts) + j]
           = [host |-> StageIPs[i], port |-> StagePorts[j]]

\* The port-only stage queries the two fleet IPs on the port hint.
C23_Witness ==
  /\ resolver.pc = "running"
  /\ CurrentStage = "portOnly"
  /\ call.targets = <<[host |-> "10.0.0.1", port |-> 27015],
                      [host |-> "10.0.0.2", port |-> 27015]>>

\* C24: a resolution performs at most four query rounds, at most two
\* when exactly one hint is given, exactly one when no hint is given or
\* fallback is false; and when every server-list fetch and every query
\* eventually settles, every resolution ends.
C24_BoundedRounds ==
  /\ [](resolver.pc # "idle" =>
          /\ Len(resolver.rounds) \in 1..4
          /\ (HostHinted # PortHinted) => Len(resolver.rounds) <= 2
          /\ ((~HostHinted /\ ~PortHinted) \/ ~resolver.fallback) => Len(resolver.rounds) = 1)
  /\ (resolver.pc = "running") ~> (resolver.pc \in {"resolved", "rejected"})

\* A resolution with both hints ended after four rounds.
C24_Witness ==
  /\ resolver.pc = "resolved"
  /\ Len(resolver.rounds) = 4
  /\ HostHinted /\ PortHinted

\* The server-list fetches made so far outside the cache.
ListFetches(fc) == fc[SERVER_LIST_URI].direct

\* The stage of the newest round after a step, and whether that round has
\* no host list.
NewStage == resolver'.rounds[Len(resolver'.rounds)].stage

NewRoundWithoutHostList ==
  NewStage \in {"portOnly", "fullScan"} \/ (NewStage = "hinted" /\ resolver'.host = Null)

\* C26: a resolution fetches the server list only in rounds that have no
\* host list, once per such round, when the round is entered: the hinted
\* stage without a host hint, the port-only and the full-scan stage; the
\* hinted stage with a host hint and the host-only stage fetch nothing.
\* With a host hint and fallback = false no fetch is made and the
\* resolution never ends in an error: it returns a record or null.
C26_FetchOnlyWithoutHostList ==
  /\ [][/\ ListFetches(fetchCalls') - ListFetches(fetchCalls) =
             (IF (lastOp'.op = "getServerInfo" \/ EntersFurtherStage) /\ NewRoundWithoutHostList
                THEN 1 ELSE 0)
        /\ fetchCalls'[SERVER_LIST_URI].cacher = fetchCalls[SERVER_LIST_URI].cacher]_vars
  /\ []((resolver.pc # "idle" /\ HostHinted /\ ~resolver.fallback) =>
          /\ Len(resolver.rounds) = 1
          /\ call.pc # "fetchingList"
          /\ ~call.serverIPs.null
          /\ resolver.pc # "rejected"
          /\ resolver.pc = "resolved" =>
               (resolver.result.null \/ resolver.result.name = resolver.serverName))
  /\ [](resolver.pc = "rejected" =>
          (CurrentStage \in {"portOnly", "fullScan"} \/ ~HostHinted))

\* The first resolution, with both hints, ran all four stages and
\* fetched the server list twice.
C26_Witness ==
  /\ resolver.pc = "resolved"
  /\ HostHinted /\ PortHinted
  /\ Entered("hostOnly") /\ Entered("portOnly") /\ Entered("fullScan")
  /\ ListFetches(fetchCalls) = 2

\* ---------------------------------------------------------------------
\* Progress of the cache (checked under SpecCacheLive)
\* ---------------------------------------------------------------------

\* The last step was a get on apiUri through its cached accessor.
GetOn(apiUri) == lastOp.op \in CachedAccessors /\ lastOp.uri = apiUri

\* The last step was a failure of a fetch for apiUri.
FailedOn(apiUri) == lastOp.op = "fetchRejected" /\ lastOp.uri = apiUri

\* C25: if get is called on a key again and again and the fetches for
\* the key do not fail forever, then eventually a get on the key returns
\* a non-null value; and once a get has returned a non-null value, every
\* later get on the key returns that value.
C25_EventuallyCached ==
  \A u \in CachedEndpoints :
    /\ ([]<>GetOn(u) /\ <>[]~FailedOn(u)) => <>(GetOn(u) /\ lastOp.ret # Null)
    /\ \A v \in Texts :
         []((GetOn(u) /\ lastOp.ret = v) => [](GetOn(u) => lastOp.ret = v))

\* A get returns the value of the third fetch after two fetches failed.
C25_Witness ==
  /\ GetOn(VERSION_URI)
  /\ lastOp.ret = "281.110"
  /\ Failures(VERSION_URI) = 2

\* ---------------------------------------------------------------------
\* The in-progress flag (checked under SpecCache)
\* ---------------------------------------------------------------------

\* C27: in every reachable state of every cache entry inProgress = true
\* implies cachedValue = null; and the success of a fetch stores the
\* delivered value and clears the flag, which was set, in one step.
C27_InProgressMeansNoValue ==
  /\ [](\A key \in DOMAIN memo : memo[key].inProgress => memo[key].cachedValue = Null)
  /\ [][lastOp'.op = "fetchResolved" =>
          /\ memo[lastOp'.key].inProgress
          /\ memo[lastOp'.key].cachedValue = Null
          /\ ~memo'[lastOp'.key].inProgress
          /\ memo'[lastOp'.key].cachedValue # Null
          /\ memo'[lastOp'.key].cachedValue =
               delivered'[lastOp'.uri][Len(delivered'[lastOp'.uri])]]_vars

\* The version fetch has just succeeded while the status fetch is still
\* under way.
C27_Witness ==
  /\ lastOp.op = "fetchResolved"
  /\ lastOp.uri = VERSION_URI
  /\ Entry(memo, VERSION_URI).cachedValue = "281.110"
  /\ ~Entry(memo, VERSION_URI).inProgress
  /\ Entry(memo, STATUS_URI).inProgress
  /\ Entry(memo, STATUS_URI).cachedValue = Null

====
